---- MODULE Spec2Model ----
(***************************************************************************)
(* Model of the note edit screen (src/pages/EntryEditScreen.tsx): the      *)
(* component state, the asynchronous handlers pickMedia, removeMedia and   *)
(* saveEntry, and the calls they make to the authentication provider, the  *)
(* object store and the record store.                                      *)
(*                                                                         *)
(* Text values are sequences of one-character strings, so that trim(),     *)
(* split(".").pop() and template concatenation are computed, not assumed.  *)
(* Every handler runs atomically up to its next await; what it read from   *)
(* the component state before the await is kept in the invocation (the     *)
(* closure of the render that created the handler).  Buttons are pressable *)
(* exactly when they are rendered and not disabled.  When the screen       *)
(* leaves the navigation stack its component state is dropped and later    *)
(* setState calls of handlers still in flight have no effect.              *)
(***************************************************************************)
EXTENDS Integers, Sequences, FiniteSets, TLC

\* ---------------------------------------------------------------- bounds
MaxInv == 2      \* pickMedia invocations started on one screen
MaxSave == 1     \* saveEntry invocations started on one screen
MaxNotes == 1    \* notes created from the list screen

\* ---------------------------------------------------------------- values
\* null / undefined of the source; distinct from the empty text <<>>
Null == <<"null">>

\* JavaScript truthiness of a text-or-null value
Truthy(s) == s # Null /\ s # <<>>

\* a || b
OrElse(a, b) == IF Truthy(a) THEN a ELSE b

RECURSIVE TrimStart(_)
TrimStart(s) ==
  IF s # <<>> /\ Head(s) = " " THEN TrimStart(Tail(s)) ELSE s

RECURSIVE TrimEnd(_)
TrimEnd(s) ==
  IF s # <<>> /\ s[Len(s)] = " " THEN TrimEnd(SubSeq(s, 1, Len(s) - 1)) ELSE s

\* String.prototype.trim
Trim(s) == TrimEnd(TrimStart(s))

\* index of the last "." of s, 0 when there is none
RECURSIVE LastDot(_, _)
LastDot(s, i) ==
  IF i = 0 THEN 0 ELSE IF s[i] = "." THEN i ELSE LastDot(s, i - 1)

\* s.split(".").pop(): the text after the last ".", the whole text without one
SplitPop(s) == SubSeq(s, LastDot(s, Len(s)) + 1, Len(s))

\* decimal digits of a non-negative number, as the template literal prints it
RECURSIVE Digits(_)
Digits(n) ==
  IF n < 10 THEN <<SubSeq(<<"0","1","2","3","4","5","6","7","8","9">>, n + 1, n + 1)[1]>>
  ELSE Digits(n \div 10) \o Digits(n % 10)

\* the extension resolved from the asset's kind alone
FileExtByKind(asset) ==
  IF asset.type = "video" THEN <<"m","p","4">> ELSE <<"p","n","g">>

\* asset.fileName?.split(".").pop() || (asset.type === "video" ? "mp4" : "png")
FileExt(asset) ==
  OrElse(IF asset.fileName = Null THEN Null ELSE SplitPop(asset.fileName),
         IF asset.type = "video" THEN <<"m","p","4">> ELSE <<"p","n","g">>)

\* the file name without the owner's id
FileNameNoOwner(uid, t, ext) == Digits(t) \o <<".">> \o ext

\* `${userId}_${Date.now()}.${fileExt}`
FileName(uid, t, ext) == uid \o <<"_">> \o Digits(t) \o <<".">> \o ext

\* the MIME type with the fallbacks exchanged
MimeTypeSwapped(asset) ==
  OrElse(asset.mimeType,
         IF asset.type = "video" THEN <<"image/png">> ELSE <<"video/mp4">>)

\* asset.mimeType || (asset.type === "video" ? "video/mp4" : "image/png")
MimeType(asset) ==
  OrElse(asset.mimeType,
         IF asset.type = "video" THEN <<"video/mp4">> ELSE <<"image/png">>)

\* `entries/${fileName}`
StoragePath(fileName) == <<"entries/">> \o fileName

\* supabase.storage.from("galeria").getPublicUrl(path).data.publicUrl
PublicUrl(path) == <<"https://store/galeria/">> \o path

\* ---------------------------------------------------------------- notices
PermissionNotice == <<"Permissão necessária", "Precisamos de acesso à sua galeria para adicionar mídia.">>
UploadThrowNotice == <<"Erro", "Falha ao fazer upload da mídia">>
AuthNotice == <<"Erro", "Usuário não identificado">>
ValidationNotice == <<"Aviso", "Adicione um título ou conteúdo para salvar">>
SaveThrowNotice == <<"Erro", "Falha ao salvar a anotação">>
ErrorNotice(msg) == <<"Erro", msg>>
NoNotice == <<>>

\* ---------------------------------------------------------------- inputs
U1 == <<"u","1">>
Users == {U1}
AuthResults == Users \cup {Null}

OldUrl == PublicUrl(StoragePath(<<"u","1","_","0",".","j">>))

NoEntry == [id |-> Null, title |-> Null, content |-> Null, media_url |-> Null]
Entry42 == [id |-> <<"4","2">>, title |-> <<>>, content |-> <<"b">>, media_url |-> OldUrl]
RouteEntries == {NoEntry, Entry42}

Titles == {<<" ","G"," ">>}
Contents == {<<" ">>}

Assets ==
  { [fileName |-> <<"a",".","j">>, type |-> "image", mimeType |-> <<"image/jpeg">>],
    [fileName |-> Null,            type |-> "video", mimeType |-> Null] }

\* result.assets of a cancelled pick (null in the picker's result)
NoAsset == [fileName |-> Null, type |-> "none", mimeType |-> Null]

\* values Date.now() returns
Times == {7, 12}

\* owner ids and picked assets the key derivation is exercised with: ids that
\* are prefixes of one another and contain the key's separators; file names
\* with one dot, several dots, a trailing dot, no dot, an upper-case suffix;
\* assets without a file name of each kind, with and without a declared MIME
\* type
Owners == {U1, <<"u">>, <<"u","_","7">>, <<"u","_","7",".","j">>}
KeyAssets ==
  Assets \cup
  { [fileName |-> <<"v",".","M">>,         type |-> "video", mimeType |-> Null],
    [fileName |-> <<"a",".","b",".","c">>, type |-> "image", mimeType |-> Null],
    [fileName |-> <<"e",".">>,             type |-> "image", mimeType |-> Null],
    [fileName |-> <<"n">>,                 type |-> "video", mimeType |-> Null],
    [fileName |-> Null, type |-> "image",     mimeType |-> Null],
    [fileName |-> Null, type |-> "livePhoto", mimeType |-> Null],
    [fileName |-> Null, type |-> "image",     mimeType |-> <<"image/heic">>],
    [fileName |-> Null, type |-> "video",     mimeType |-> <<>>] }

\* the row of the record store the route entry Entry42 was listed from, and
\* the table holding it; creator is the identity that inserted the row (the
\* store does not keep it: it is recorded to state who created a note)
Row42 == [id |-> Entry42.id, user_id |-> U1, title |-> Entry42.title,
          content |-> Entry42.content, media_url |-> Entry42.media_url,
          creator |-> U1]
EmptyTable == [rows |-> <<>>, issued |-> 42]
StoredTable == [rows |-> <<Row42>>, issued |-> 42]

StoreErrors == {"quota exceeded"}
CallResults == {[kind |-> "ok", message |-> ""], [kind |-> "throw", message |-> ""]}
                 \cup {[kind |-> "error", message |-> m] : m \in StoreErrors}

\* what the object store answers to an upload that may not overwrite, when an
\* object is stored at the key already
DuplicateError == [kind |-> "error", message |-> "The resource already exists"]

\* ---------------------------------------------------------------- state
VARIABLES
  editingEntry,  \* route.params?.entry (NoEntry when the screen creates a note)
  authUser,      \* what supabase.auth.getUser() answers: a user id or Null
  getUserPc,     \* "pending" until the mount effect's getUser() has resolved
  title, content, media, userId, loading,   \* the five useState cells
  mounted,       \* the screen is on the navigation stack
  inv,           \* pickMedia invocations, by order of start
  sv,            \* saveEntry invocations, by order of start
  now,           \* the value Date.now() returned last
  uploads,       \* calls storage.from("galeria").upload(path, bytes, options)
  urlCalls,      \* calls storage.from("galeria").getPublicUrl(path)
  removes,       \* number of delete calls made to the object store
  upserts,       \* calls from("entries").upsert(payload)
  alerts,        \* number of Alert.alert calls
  table,         \* the record store's table "entries"
  home,          \* the list screen: its entries state and its delete handler
  derivation     \* a storage identity being derived for two picked assets

vars == <<editingEntry, authUser, getUserPc, title, content, media, userId,
          loading, mounted, inv, sv, now, uploads, urlCalls, removes, upserts,
          alerts, table, home, derivation>>

InvIds == 1..MaxInv
SaveIds == 1..MaxSave

\* uid: the userId of the render whose pickMedia was pressed; path: the key
\* uploaded; notice: the Alert this invocation raised; trace: the pipeline
\* states it went through; call: the position of its upload in uploads
IdleInv == [pc |-> "idle", uid |-> Null, path |-> Null, notice |-> NoNotice,
            trace |-> <<>>, call |-> 0]
IdleSave == [pc |-> "idle", outcome |-> "none", notice |-> NoNotice, call |-> 0]

\* the list screen's delete handler: id is the row it was pressed on, calls
\* the number of delete calls it made, notice the Alert raised for the outcome
IdleDel == [pc |-> "idle", id |-> Null, calls |-> 0, outcome |-> "none",
            notice |-> NoNotice]

\* no storage identity is being derived / has been derived yet
NoDerivation == [pc |-> "none"]
NoIdentity == [fileExt |-> Null, fileName |-> Null, mimeType |-> Null, path |-> Null]

RECURSIVE Reverse(_)
Reverse(s) == IF s = <<>> THEN <<>> ELSE Append(Reverse(Tail(s)), Head(s))

\* select("*").order("created_at", { ascending: false }): every row of the
\* table, newest first; rows are kept in the order they were inserted
SelectAll(tbl) == Reverse(tbl.rows)

\* the list screen showing the rows of tbl, nothing in flight
HomeShowing(tbl) == [entries |-> SelectAll(tbl), loadPc |-> "idle", del |-> IdleDel]

\* from("entries").upsert(p): a payload whose id is present and stored
\* overwrites the columns it carries, in place; any other payload is inserted,
\* the store issuing the id when the payload has none
ApplyUpsert(tbl, p) ==
  IF p.id # Null /\ \E k \in 1..Len(tbl.rows) : tbl.rows[k].id = p.id
    THEN [tbl EXCEPT !.rows =
            [k \in 1..Len(tbl.rows) |->
               IF tbl.rows[k].id = p.id
                 THEN [tbl.rows[k] EXCEPT !.user_id = p.user_id, !.title = p.title,
                                          !.content = p.content,
                                          !.media_url = p.media_url]
                 ELSE tbl.rows[k]]]
    ELSE [rows |-> Append(tbl.rows,
                     [id |-> IF p.id = Null THEN Digits(tbl.issued + 1) ELSE p.id,
                      user_id |-> p.user_id, title |-> p.title,
                      content |-> p.content, media_url |-> p.media_url,
                      creator |-> p.user_id]),
          issued |-> IF p.id = Null THEN tbl.issued + 1 ELSE tbl.issued]

\* from("entries").delete().eq("id", id)
ApplyDelete(tbl, id) ==
  [tbl EXCEPT !.rows = SelectSeq(tbl.rows, LAMBDA r : r.id # id)]

InFlight(r) == r.pc \in {"permission", "picking", "uploading"}

\* the pipeline state w occurs in trace s
Has(s, w) == \E k \in 1..Len(s) : s[k] = w

\* a setState call: dropped once the component is unmounted
SetState(old, new) == IF mounted THEN new ELSE old

\* the component state React drops when the screen leaves the stack
Unmount ==
  /\ mounted' = FALSE
  /\ title' = <<>>
  /\ content' = <<>>
  /\ media' = Null
  /\ userId' = Null
  /\ loading' = FALSE

Init ==
  /\ editingEntry \in RouteEntries
  /\ authUser \in AuthResults
  /\ getUserPc = "pending"
  /\ title = OrElse(editingEntry.title, <<>>)
  /\ content = OrElse(editingEntry.content, <<>>)
  /\ media = OrElse(editingEntry.media_url, Null)
  /\ userId = Null
  /\ loading = FALSE
  /\ mounted = TRUE
  /\ inv = [i \in InvIds |-> IdleInv]
  /\ sv = [s \in SaveIds |-> IdleSave]
  /\ now \in {t \in Times : \A u \in Times : t <= u}
  /\ uploads = <<>>
  /\ urlCalls = <<>>
  /\ removes = 0
  /\ upserts = <<>>
  /\ alerts = 0
  /\ table = (IF editingEntry = NoEntry THEN EmptyTable ELSE StoredTable)
  /\ home = HomeShowing(table)
  /\ derivation = NoDerivation

\* ---------------------------------------------------------------- actions
\* the mount effect: getUser() resolves
GetUser ==
  /\ getUserPc = "pending"
  /\ getUserPc' = "done"
  /\ userId' = IF authUser # Null THEN SetState(userId, authUser) ELSE userId
  /\ UNCHANGED <<derivation, table, home, editingEntry, authUser, title,
                 content, media, loading, mounted, inv, sv, now, uploads,
                 urlCalls, removes, upserts, alerts>>

\* onChangeText of the title field
SetTitle(t) ==
  /\ mounted
  /\ title # t
  /\ title' = t
  /\ UNCHANGED <<derivation, table, home, editingEntry, authUser, getUserPc,
                 content, media, userId, loading, mounted, inv, sv, now,
                 uploads, urlCalls, removes, upserts, alerts>>

\* onChangeText of the content field
SetContent(c) ==
  /\ mounted
  /\ content # c
  /\ content' = c
  /\ UNCHANGED <<derivation, table, home, editingEntry, authUser, getUserPc,
                 title, media, userId, loading, mounted, inv, sv, now,
                 uploads, urlCalls, removes, upserts, alerts>>

\* the header's back button
GoBack ==
  /\ mounted
  /\ Unmount
  /\ UNCHANGED <<derivation, table, home, editingEntry, authUser, getUserPc,
                 inv, sv, now, uploads, urlCalls, removes, upserts, alerts>>

\* pickMedia, up to the await of the permission request.  The media button
\* is pressable when the screen is shown and loading is false.
PickMediaStart(i) ==
  /\ mounted
  /\ ~loading
  /\ inv[i].pc = "idle"
  /\ \A j \in InvIds : j < i => inv[j].pc # "idle"
  /\ inv' = [inv EXCEPT ![i] = [IdleInv EXCEPT !.pc = "permission", !.uid = userId,
                                  !.trace = <<"PermissionRequested">>]]
  /\ UNCHANGED <<derivation, table, home, editingEntry, authUser, getUserPc,
                 title, content, media, userId, loading, mounted, sv, now,
                 uploads, urlCalls, removes, upserts, alerts>>

\* DenyPermission without its return: the alert is raised and the picker opens
DenyPermissionFallsThrough(i) ==
  /\ alerts' = alerts + 1
  /\ inv' = [inv EXCEPT ![i].pc = "picking", ![i].notice = PermissionNotice,
                          ![i].trace = @ \o <<"Denied", "Picking">>]

\* lines 44-47: the permission was denied
DenyPermission(i) ==
  /\ alerts' = alerts + 1
  /\ inv' = [inv EXCEPT ![i].pc = "done", ![i].notice = PermissionNotice,
                          ![i].trace = @ \o <<"Denied">>]

\* lines 50-55: the picker is opened
LaunchPicker(i) ==
  /\ alerts' = alerts
  /\ inv' = [inv EXCEPT ![i].pc = "picking", ![i].trace = @ \o <<"Granted", "Picking">>]

\* pickMedia, from the permission result to the await of the picker
PermissionResult(i, granted) ==
  /\ inv[i].pc = "permission"
  /\ IF ~granted THEN DenyPermission(i) ELSE LaunchPicker(i)
  /\ UNCHANGED <<derivation, table, home, editingEntry, authUser, getUserPc,
                 title, content, media, userId, loading, mounted, sv, now,
                 uploads, urlCalls, removes, upserts>>

\* SkipUpload that also clears the attachment
SkipUploadClearsMedia(i, canceled) ==
  /\ inv' = [inv EXCEPT ![i].pc = "done",
               ![i].trace = @ \o <<IF canceled THEN "Cancelled" ELSE "NoIdentity">>]
  /\ media' = SetState(media, Null)
  /\ UNCHANGED <<loading, uploads, now>>

\* line 58 false: the pick was cancelled, or the closure holds no userId
SkipUpload(i, canceled) ==
  /\ inv' = [inv EXCEPT ![i].pc = "done",
               ![i].trace = @ \o <<IF canceled THEN "Cancelled" ELSE "NoIdentity">>]
  /\ UNCHANGED <<loading, uploads, now, media>>

\* StartUpload issuing the upload without the overwrite option
StartUploadNoOverwrite(i, asset, t) ==
  LET fileExt == FileExt(asset)
      fileName == FileName(inv[i].uid, t, fileExt)
      mimeType == MimeType(asset)
      path == StoragePath(fileName)
  IN /\ now' = t
     /\ loading' = SetState(loading, TRUE)
     /\ uploads' = Append(uploads, [path |-> path, contentType |-> mimeType,
                                     upsert |-> FALSE])
     /\ inv' = [inv EXCEPT ![i].pc = "uploading", ![i].path = path,
                             ![i].call = Len(uploads) + 1,
                             ![i].trace = @ \o <<"Picked", "Uploading">>]
     /\ media' = media

\* lines 59-81: the key and the MIME type are derived and the upload is issued
StartUpload(i, asset, t) ==
  LET fileExt == FileExt(asset)
      fileName == FileName(inv[i].uid, t, fileExt)
      mimeType == MimeType(asset)
      path == StoragePath(fileName)
  IN /\ now' = t
     /\ loading' = SetState(loading, TRUE)
     /\ uploads' = Append(uploads, [path |-> path, contentType |-> mimeType,
                                     upsert |-> TRUE])
     /\ inv' = [inv EXCEPT ![i].pc = "uploading", ![i].path = path,
                             ![i].call = Len(uploads) + 1,
                             ![i].trace = @ \o <<"Picked", "Uploading">>]
     /\ media' = media

\* PickResult whose line 58 tests !result.canceled only
PickResultNoIdentityCheck(i, canceled, asset, t) ==
  /\ inv[i].pc = "picking"
  /\ t >= now
  /\ IF ~canceled
       THEN StartUpload(i, asset, t)
       ELSE t = now /\ SkipUpload(i, canceled)
  /\ UNCHANGED <<derivation, table, home, editingEntry, authUser, getUserPc,
                 title, content, userId, mounted, sv, urlCalls, removes,
                 upserts, alerts>>

\* pickMedia, from the picker's result to the await of the upload; t is what
\* Date.now() returns
PickResult(i, canceled, asset, t) ==
  /\ inv[i].pc = "picking"
  /\ t >= now
  /\ IF ~canceled /\ Truthy(inv[i].uid)
       THEN StartUpload(i, asset, t)
       ELSE t = now /\ SkipUpload(i, canceled)
  /\ UNCHANGED <<derivation, table, home, editingEntry, authUser, getUserPc,
                 title, content, userId, mounted, sv, urlCalls, removes,
                 upserts, alerts>>

\* UploadError without its return: the alert is raised, then the URL is
\* resolved and attached
UploadErrorFallsThrough(i, res) ==
  /\ alerts' = alerts + 1
  /\ urlCalls' = Append(urlCalls, inv[i].path)
  /\ media' = SetState(media, PublicUrl(inv[i].path))
  /\ inv' = [inv EXCEPT ![i].pc = "done", ![i].notice = ErrorNotice(res.message),
                          ![i].trace = @ \o <<"Failed">>]

\* lines 84-87: the store answered with an error
UploadError(i, res) ==
  /\ alerts' = alerts + 1
  /\ inv' = [inv EXCEPT ![i].pc = "done", ![i].notice = ErrorNotice(res.message),
                          ![i].trace = @ \o <<"Failed">>]
  /\ UNCHANGED <<media, urlCalls>>

\* lines 92-94: the awaited upload threw
UploadThrow(i) ==
  /\ alerts' = alerts + 1
  /\ inv' = [inv EXCEPT ![i].pc = "done", ![i].notice = UploadThrowNotice,
                          ![i].trace = @ \o <<"Threw">>]
  /\ UNCHANGED <<media, urlCalls>>

\* ResolveAndAttach that resolves the file name, not the key it uploaded
ResolveAndAttachBareName(i) ==
  /\ urlCalls' = Append(urlCalls, Tail(inv[i].path))
  /\ media' = SetState(media, PublicUrl(Tail(inv[i].path)))
  /\ inv' = [inv EXCEPT ![i].pc = "done",
               ![i].trace = @ \o <<"Uploaded", "Resolved", "AttachedToDraft">>]
  /\ alerts' = alerts

\* lines 90-91: the public URL of the uploaded key is resolved and attached
ResolveAndAttach(i) ==
  /\ urlCalls' = Append(urlCalls, inv[i].path)
  /\ media' = SetState(media, PublicUrl(inv[i].path))
  /\ inv' = [inv EXCEPT ![i].pc = "done",
               ![i].trace = @ \o <<"Uploaded", "Resolved", "AttachedToDraft">>]
  /\ alerts' = alerts

\* UploadResult whose reset of loading runs on the success path only
UploadResultNoFinally(i, res) ==
  /\ inv[i].pc = "uploading"
  /\ res \in CallResults
  /\ loading' = IF res.kind = "ok" THEN SetState(loading, FALSE) ELSE loading
  /\ CASE res.kind = "error" -> UploadError(i, res)
       [] res.kind = "throw" -> UploadThrow(i)
       [] res.kind = "ok" -> ResolveAndAttach(i)
  /\ UNCHANGED <<derivation, table, home, editingEntry, authUser, getUserPc,
                 title, content, userId, mounted, sv, now, uploads, removes,
                 upserts>>

\* an object is stored at the key: an upload to it succeeded, or it is the
\* object the opened note's attachment points to
Stored(path) ==
  \/ \E j \in InvIds : inv[j].path = path /\ Has(inv[j].trace, "Uploaded")
  \/ PublicUrl(path) = editingEntry.media_url

\* lines 76-81: what the object store can answer to invocation i's upload;
\* with upsert: true an object already stored at the key is overwritten,
\* without it the upload is rejected as a duplicate
UploadOutcomes(i) ==
  IF ~uploads[inv[i].call].upsert /\ Stored(inv[i].path)
    THEN (CallResults \ {[kind |-> "ok", message |-> ""]}) \cup {DuplicateError}
    ELSE CallResults

\* pickMedia, from the upload's result to the end (finally included)
UploadResult(i, res) ==
  /\ inv[i].pc = "uploading"
  /\ res \in UploadOutcomes(i)
  /\ loading' = SetState(loading, FALSE)
  /\ CASE res.kind = "error" -> UploadError(i, res)
       [] res.kind = "throw" -> UploadThrow(i)
       [] res.kind = "ok" -> ResolveAndAttach(i)
  /\ UNCHANGED <<derivation, table, home, editingEntry, authUser, getUserPc,
                 title, content, userId, mounted, sv, now, uploads, removes,
                 upserts>>

\* removeMedia that also deletes the object from the store
RemoveMediaDeletesObject ==
  /\ mounted
  /\ Truthy(media)
  /\ media' = Null
  /\ removes' = removes + 1
  /\ UNCHANGED <<derivation, table, home, editingEntry, authUser, getUserPc,
                 title, content, userId, loading, mounted, inv, sv, now,
                 uploads, urlCalls, upserts, alerts>>

\* removeMedia; its button is rendered only while media is set
RemoveMedia ==
  /\ mounted
  /\ Truthy(media)
  /\ media' = Null
  /\ UNCHANGED <<derivation, table, home, editingEntry, authUser, getUserPc,
                 title, content, userId, loading, mounted, inv, sv, now,
                 uploads, urlCalls, removes, upserts, alerts>>

\* the identity check left out
UnidentifiedNever(uid) == FALSE

\* line 111: !userId
Unidentified(uid) == ~Truthy(uid)

\* the blank check without trim()
IsBlankUntrimmed(t, c) == ~Truthy(t) /\ ~Truthy(c)

\* line 117: !title.trim() && !content.trim()
IsBlank(t, c) == ~Truthy(Trim(t)) /\ ~Truthy(Trim(c))

\* the payload with the media the screen was opened with
PayloadStaleMedia ==
  [id |-> editingEntry.id, user_id |-> userId, title |-> Trim(title),
   content |-> Trim(content), media_url |-> editingEntry.media_url]

\* the payload with the title as typed
PayloadUntrimmed ==
  [id |-> editingEntry.id, user_id |-> userId, title |-> title,
   content |-> Trim(content), media_url |-> media]

\* lines 126-132: the payload of the upsert
Payload ==
  [id |-> editingEntry.id, user_id |-> userId, title |-> Trim(title),
   content |-> Trim(content), media_url |-> media]

\* lines 111-114: no identity
RejectUnidentified(s) ==
  /\ alerts' = alerts + 1
  /\ sv' = [sv EXCEPT ![s] = [pc |-> "done", outcome |-> "unauthenticated",
                              notice |-> AuthNotice, call |-> 0]]
  /\ UNCHANGED <<loading, upserts>>

\* lines 117-120: nothing to save
RejectBlank(s) ==
  /\ alerts' = alerts + 1
  /\ sv' = [sv EXCEPT ![s] = [pc |-> "done", outcome |-> "empty",
                              notice |-> ValidationNotice, call |-> 0]]
  /\ UNCHANGED <<loading, upserts>>

\* lines 122-135: the upsert is issued
IssueUpsert(s) ==
  /\ loading' = TRUE
  /\ upserts' = Append(upserts, Payload)
  /\ sv' = [sv EXCEPT ![s] = [pc |-> "upserting", outcome |-> "none",
                              notice |-> NoNotice, call |-> Len(upserts) + 1]]
  /\ alerts' = alerts

\* saveEntry, up to the await of the upsert.  The save button is pressable
\* when the screen is shown and loading is false.
SaveEntryStart(s) ==
  /\ mounted
  /\ ~loading
  /\ sv[s].pc = "idle"
  /\ \A r \in SaveIds : r < s => sv[r].pc # "idle"
  /\ IF Unidentified(userId) THEN RejectUnidentified(s)
     ELSE IF IsBlank(title, content) THEN RejectBlank(s)
     ELSE IssueUpsert(s)
  /\ UNCHANGED <<derivation, table, home, editingEntry, authUser, getUserPc,
                 title, content, media, userId, mounted, inv, now, uploads,
                 urlCalls, removes>>

\* lines 137-139 and 144-146: the upsert failed; finally resets loading
UpsertFailed(s, res) ==
  /\ table' = table
  /\ alerts' = alerts + 1
  /\ sv' = [sv EXCEPT ![s] =
              IF res.kind = "error"
                THEN [pc |-> "done", outcome |-> "rejected",
                      notice |-> ErrorNotice(res.message), call |-> @.call]
                ELSE [pc |-> "done", outcome |-> "threw", notice |-> SaveThrowNotice,
                      call |-> @.call]]
  /\ loading' = SetState(loading, FALSE)
  /\ UNCHANGED <<mounted, title, content, media, userId>>

\* lines 140-143: the upsert succeeded; navigation.goBack() pops the screen
UpsertOk(s) ==
  /\ table' = ApplyUpsert(table, upserts[sv[s].call])
  /\ Unmount
  /\ sv' = [sv EXCEPT ![s] = [pc |-> "done", outcome |-> "saved", notice |-> NoNotice,
                              call |-> @.call]]
  /\ alerts' = alerts

\* saveEntry, from the upsert's result to the end (finally included)
UpsertResult(s, res) ==
  /\ sv[s].pc = "upserting"
  /\ IF res.kind = "ok" THEN UpsertOk(s) ELSE UpsertFailed(s, res)
  /\ UNCHANGED <<derivation, home, editingEntry, authUser, getUserPc, inv,
                 now, uploads, urlCalls, removes, upserts>>

Next ==
  \/ GetUser
  \/ \E t \in Titles : SetTitle(t)
  \/ \E c \in Contents : SetContent(c)
  \/ GoBack
  \/ \E i \in InvIds : PickMediaStart(i)
  \/ \E i \in InvIds, g \in BOOLEAN : PermissionResult(i, g)
  \/ \E i \in InvIds : PickResult(i, TRUE, NoAsset, now)
  \/ \E i \in InvIds, a \in Assets, t \in Times : PickResult(i, FALSE, a, t)
  \/ RemoveMedia
  \/ \E i \in InvIds, r \in CallResults \cup {DuplicateError} : UploadResult(i, r)
  \/ \E s \in SaveIds : SaveEntryStart(s)
  \/ \E s \in SaveIds, r \in CallResults : UpsertResult(s, r)

Spec == Init /\ [][Next]_vars

\* the awaited calls settle: every upload and every upsert that was issued
\* is eventually answered (resolved, resolved with an error, or rejected)
UploadSettles(i) == \E r \in CallResults \cup {DuplicateError} : UploadResult(i, r)
UpsertSettles(s) == \E r \in CallResults : UpsertResult(s, r)

FairSpec ==
  /\ Spec
  /\ \A i \in InvIds : WF_vars(UploadSettles(i))
  /\ \A s \in SaveIds : WF_vars(UpsertSettles(s))

\* ------------------------------------------------ storage identity, lines 66-76
\* The derivation of lines 66, 69, 72 and 76 applied to two picked assets k = 1, 2
\* of two owners at one value t of Date.now().
DerivationInputs ==
  [pc : {"input"}, owner : [1..2 -> Owners], asset : [1..2 -> KeyAssets],
   t : Times, out : {[k \in 1..2 |-> NoIdentity]}]

KeyInit ==
  /\ derivation \in DerivationInputs
  /\ editingEntry = NoEntry
  /\ authUser = Null
  /\ getUserPc = "pending"
  /\ title = <<>>
  /\ content = <<>>
  /\ media = Null
  /\ userId = Null
  /\ loading = FALSE
  /\ mounted = TRUE
  /\ inv = [i \in InvIds |-> IdleInv]
  /\ sv = [s \in SaveIds |-> IdleSave]
  /\ now = derivation.t
  /\ uploads = <<>>
  /\ urlCalls = <<>>
  /\ removes = 0
  /\ upserts = <<>>
  /\ alerts = 0
  /\ table = EmptyTable
  /\ home = HomeShowing(table)

\* lines 66-76 for asset k: fileExt, fileName, mimeType and the upload's path
DeriveStorageIdentity(k) ==
  /\ derivation.pc = "input"
  /\ derivation.out[k] = NoIdentity
  /\ LET asset == derivation.asset[k]
         fileExt == FileExt(asset)
         fileName == FileName(derivation.owner[k], derivation.t, fileExt)
         mimeType == MimeType(asset)
         path == StoragePath(fileName)
     IN derivation' = [derivation EXCEPT !.out[k] =
                         [fileExt |-> fileExt, fileName |-> fileName,
                          mimeType |-> mimeType, path |-> path]]
  /\ UNCHANGED <<editingEntry, authUser, getUserPc, title, content, media, userId,
                 loading, mounted, inv, sv, now, uploads, urlCalls, removes,
                 upserts, alerts, table, home>>

KeyNext == \E k \in 1..2 : DeriveStorageIdentity(k)

KeySpec == KeyInit /\ [][KeyNext]_vars

\* ---------------------------------------------------------------- properties
Last(s) == s[Len(s)]
IsPrefix(s, t) == Len(s) <= Len(t) /\ SubSeq(t, 1, Len(s)) = s
EndsWith(s, t) == Len(t) <= Len(s) /\ SubSeq(s, Len(s) - Len(t) + 1, Len(s)) = t
Contains(s, t) == \E k \in 0..(Len(s) - Len(t)) : SubSeq(s, k + 1, k + Len(t)) = t
AllSpaces(s) == \A k \in 1..Len(s) : s[k] = " "
BothBlank == AllSpaces(title) /\ AllSpaces(content)

\* the step in which invocation i reaches pipeline state w
Reaches(i, w) == ~Has(inv[i].trace, w) /\ Has(inv'[i].trace, w)
\* a step of invocation i that does not attach
QuietStep(i) == inv'[i] # inv[i] /\ ~Has(inv'[i].trace, "AttachedToDraft")
\* the step in which saveEntry invocation s is called
SaveCall(s) == sv[s].pc = "idle" /\ sv'[s].pc # "idle"

C2_SingleInFlight ==
  \A i, j \in InvIds : i # j => ~(InFlight(inv[i]) /\ InFlight(inv[j]))

\* C3 as stated: every saveEntry call with a blank title and a blank body
\* issues no upsert and raises the validation notice, whatever the identity.
C3_Original ==
  [][\A s \in SaveIds :
       (SaveCall(s) /\ BothBlank) =>
          upserts' = upserts /\ sv'[s].notice = ValidationNotice]_vars

\* C3 as amended: every saveEntry call with a blank title and a blank body
\* issues no upsert and raises one notice, the validation notice when an
\* identity is held and the authentication notice when none is; every payload
\* ever upserted has a non-blank trimmed title or a non-blank trimmed body.
C3_BlankSaveRejected ==
  /\ [][\A s \in SaveIds :
          (SaveCall(s) /\ BothBlank) =>
             /\ upserts' = upserts
             /\ sv'[s].pc = "done"
             /\ alerts' = alerts + 1
             /\ sv'[s].notice = IF userId = Null THEN AuthNotice ELSE ValidationNotice]_vars
  /\ [](\A k \in 1..Len(upserts) :
          ~AllSpaces(upserts[k].title) \/ ~AllSpaces(upserts[k].content))

C3_Witness ==
  \E s \in SaveIds :
    /\ sv[s].outcome = "empty" /\ sv[s].notice = ValidationNotice
    /\ mounted /\ BothBlank /\ content = <<" ">> /\ userId # Null /\ upserts = <<>>

\* C4: a saveEntry call with a non-blank title and no identity issues no
\* upsert, raises the authentication notice and leaves the busy flag and the
\* draft as they were.
C4_UnidentifiedSaveRejected ==
  [][\A s \in SaveIds :
       (SaveCall(s) /\ ~AllSpaces(title) /\ userId = Null) =>
          /\ upserts' = upserts
          /\ sv'[s].pc = "done"
          /\ alerts' = alerts + 1
          /\ sv'[s].notice = AuthNotice
          /\ loading' = loading
          /\ title' = title /\ content' = content /\ media' = media]_vars

C4_Witness ==
  \E s \in SaveIds :
    /\ sv[s].outcome = "unauthenticated" /\ sv[s].notice = AuthNotice
    /\ mounted /\ ~AllSpaces(title) /\ userId = Null /\ upserts = <<>> /\ ~loading

\* C5: a denied permission request ends pickMedia at once: the picker is not
\* opened, no object-store call is made, one alert (the permission notice) is
\* raised, no invocation is started or resumed by that step or later, and the
\* draft's media and the busy flag are unchanged.
C5_DenialStops ==
  [][\A i \in InvIds :
       /\ Reaches(i, "Denied") =>
            /\ inv[i].pc = "permission" /\ inv'[i].pc = "done"
            /\ inv'[i].trace = <<"PermissionRequested", "Denied">>
            /\ uploads' = uploads /\ urlCalls' = urlCalls
            /\ alerts' = alerts + 1
            /\ inv'[i].notice = PermissionNotice
            /\ media' = media /\ loading' = loading
            /\ \A j \in InvIds : j # i => inv'[j] = inv[j]
       /\ Has(inv[i].trace, "Denied") => inv'[i] = inv[i]]_vars

C5_Witness ==
  \E i \in InvIds :
    /\ inv[i].pc = "done" /\ inv[i].trace = <<"PermissionRequested", "Denied">>
    /\ mounted /\ media = OldUrl /\ uploads = <<>> /\ urlCalls = <<>> /\ alerts = 1

C7_DetachKeepsObject ==
  /\ [][(mounted' /\ media # Null /\ media' = Null) =>
          UNCHANGED <<uploads, urlCalls, upserts, removes, alerts, inv, sv, loading,
                      title, content, userId>>]_vars
  /\ [](removes = 0)

C7_Witness ==
  /\ mounted /\ media = Null /\ editingEntry = Entry42
  /\ \E i \in InvIds : Has(inv[i].trace, "AttachedToDraft")
  /\ Len(upserts) = 1 /\ removes = 0

\* the pipeline states an invocation may go through, in order
PipelinePaths ==
  { <<"PermissionRequested", "Denied">>,
    <<"PermissionRequested", "Granted", "Picking", "Cancelled">>,
    <<"PermissionRequested", "Granted", "Picking", "NoIdentity">>,
    <<"PermissionRequested", "Granted", "Picking", "Picked", "Uploading", "Failed">>,
    <<"PermissionRequested", "Granted", "Picking", "Picked", "Uploading", "Threw">>,
    <<"PermissionRequested", "Granted", "Picking", "Picked", "Uploading", "Uploaded",
      "Resolved", "AttachedToDraft">> }

\* C8: every pickMedia invocation goes through the pipeline states in order;
\* each upload call belongs to an invocation that picked, each URL call
\* resolves a key whose upload was issued by an invocation that got past it,
\* and a media reference other than the one the screen opened with is the URL
\* of a resolved key.
C8_StepOrder ==
  /\ \A i \in InvIds :
       /\ \E p \in PipelinePaths : IsPrefix(inv[i].trace, p)
       /\ Has(inv[i].trace, "Uploading") => \E k \in 1..Len(uploads) : uploads[k].path = inv[i].path
  /\ Len(uploads) = Cardinality({i \in InvIds : Has(inv[i].trace, "Uploading")})
  /\ Len(urlCalls) = Cardinality({i \in InvIds : Has(inv[i].trace, "Resolved")})
  /\ \A k \in 1..Len(urlCalls) :
       /\ \E i \in InvIds : Has(inv[i].trace, "Uploaded") /\ inv[i].path = urlCalls[k]
       /\ \E j \in 1..Len(uploads) : uploads[j].path = urlCalls[k]
  /\ (mounted /\ media # Null /\ media # editingEntry.media_url) =>
       \E k \in 1..Len(urlCalls) : media = <<"https://store/galeria/">> \o urlCalls[k]

C8_Witness ==
  \E i \in InvIds :
    /\ inv[i].pc = "done" /\ Last(inv[i].trace) = "AttachedToDraft"
    /\ mounted /\ media = <<"https://store/galeria/">> \o inv[i].path
    /\ Len(uploads) = 1 /\ urlCalls = <<uploads[1].path>>

\* the scenario of C9 before the save: note 42 is being edited, one pickMedia
\* invocation ran and attached, the attachment is still on the draft and
\* nothing was saved yet
EditedWithAttachment ==
  /\ editingEntry = Entry42
  /\ inv[1].pc = "done" /\ Last(inv[1].trace) = "AttachedToDraft"
  /\ \A j \in InvIds : j # 1 => inv[j].pc = "idle"
  /\ upserts = <<>>
  /\ media # Null

\* C9: in that scenario a saveEntry call that passes the checks leaves exactly
\* one upload call, whose key contains the owner id and ends with the
\* extension resolved for the picked asset, and issues exactly one upsert,
\* whose id is the note's and whose media reference is the public URL of the
\* uploaded key.
C9_EditAttachSave ==
  [][(EditedWithAttachment /\ SaveCall(1) /\ userId # Null /\ ~BothBlank) =>
       /\ Len(uploads') = 1
       /\ Contains(uploads'[1].path, authUser)
       /\ uploads'[1].contentType = <<"image/jpeg">> => EndsWith(uploads'[1].path, <<".", "j">>)
       /\ uploads'[1].contentType = <<"video/mp4">> => EndsWith(uploads'[1].path, <<".", "m", "p", "4">>)
       /\ uploads'[1].contentType \in {<<"image/jpeg">>, <<"video/mp4">>}
       /\ Len(upserts') = 1
       /\ upserts'[1].id = <<"4", "2">>
       /\ upserts'[1].media_url = <<"https://store/galeria/">> \o uploads'[1].path
       /\ urlCalls' = <<uploads'[1].path>>]_vars

C9_Witness ==
  /\ editingEntry = Entry42
  /\ inv[1].pc = "done" /\ Last(inv[1].trace) = "AttachedToDraft"
  /\ \A j \in InvIds : j # 1 => inv[j].pc = "idle"
  /\ Len(uploads) = 1 /\ Len(upserts) = 1
  /\ upserts[1].id = <<"4", "2">>
  /\ upserts[1].media_url = <<"https://store/galeria/">> \o uploads[1].path

\* C10: saving a new note with a non-blank title, an empty body, no media and
\* an identity, with no pickMedia invocation started, issues exactly one
\* upsert, whose payload has the trimmed title, an empty body, a null media
\* reference, the identity as owner and no id, and no object-store call.
C10_NewNoteSave ==
  [][\A s \in SaveIds :
       (/\ SaveCall(s)
        /\ editingEntry = NoEntry
        /\ \A i \in InvIds : inv[i].pc = "idle"
        /\ title = <<" ", "G", " ">> /\ content = <<>> /\ media = Null
        /\ userId # Null) =>
          /\ upserts' = Append(upserts, [id |-> Null, user_id |-> authUser,
                                         title |-> <<"G">>, content |-> <<>>,
                                         media_url |-> Null])
          /\ uploads' = <<>> /\ urlCalls' = <<>> /\ removes' = 0]_vars

C10_Witness ==
  /\ editingEntry = NoEntry
  /\ \A i \in InvIds : inv[i].pc = "idle"
  /\ upserts = <<[id |-> Null, user_id |-> U1, title |-> <<"G">>, content |-> <<>>,
                  media_url |-> Null]>>
  /\ uploads = <<>> /\ urlCalls = <<>> /\ removes = 0

\* ------------------------------------------- list screen, HomeScreen.tsx
\* The list screen over the record store, the edit screen opened from it and
\* a change of the signed-in account.  The edit screen's media handlers are
\* left out here (they do not touch the record store), the note's body is
\* left as the screen opened it, the table starts empty, and a new edit screen
\* is opened only when no handler of the previous one is still in flight.
U2 == <<"u","2">>
HomeUsers == {U1, U2}

HomeInit ==
  /\ table = EmptyTable
  /\ authUser \in HomeUsers
  /\ home = [entries |-> <<>>, loadPc |-> "loading", del |-> IdleDel]
  /\ editingEntry = NoEntry
  /\ getUserPc = "done"
  /\ title = <<>>
  /\ content = <<>>
  /\ media = Null
  /\ userId = Null
  /\ loading = FALSE
  /\ mounted = FALSE
  /\ inv = [i \in InvIds |-> IdleInv]
  /\ sv = [s \in SaveIds |-> IdleSave]
  /\ now \in {t \in Times : \A u \in Times : t <= u}
  /\ uploads = <<>>
  /\ urlCalls = <<>>
  /\ removes = 0
  /\ upserts = <<>>
  /\ alerts = 0
  /\ derivation = NoDerivation

\* the list screen is the visible one and shows no dialog
HomeFocused == ~mounted /\ home.del.pc # "confirm"

NothingInFlight ==
  /\ \A i \in InvIds : ~InFlight(inv[i])
  /\ \A s \in SaveIds : sv[s].pc # "upserting"

\* HomeScreen 28-29: loadEntries up to the await of the select (run by the
\* focus effect of lines 42-44 and by pull-to-refresh)
LoadEntries ==
  /\ HomeFocused
  /\ home.loadPc = "idle"
  /\ home' = [home EXCEPT !.loadPc = "loading"]
  /\ UNCHANGED <<editingEntry, authUser, getUserPc, title, content, media, userId,
                 loading, mounted, inv, sv, now, uploads, urlCalls, removes,
                 upserts, alerts, table, derivation>>

\* HomeScreen 32-37: the select answered; data || []
LoadEntriesResult(ok) ==
  /\ home.loadPc = "loading"
  /\ home' = [home EXCEPT !.loadPc = "idle",
                          !.entries = IF ok THEN SelectAll(table) ELSE <<>>]
  /\ UNCHANGED <<editingEntry, authUser, getUserPc, title, content, media, userId,
                 loading, mounted, inv, sv, now, uploads, urlCalls, removes,
                 upserts, alerts, table, derivation>>

\* EntryEditScreen 11-25: a new instance of the edit screen for route entry e
MountEditScreen(e) ==
  /\ editingEntry' = e
  /\ getUserPc' = "pending"
  /\ title' = OrElse(e.title, <<>>)
  /\ content' = OrElse(e.content, <<>>)
  /\ media' = OrElse(e.media_url, Null)
  /\ userId' = Null
  /\ loading' = FALSE
  /\ mounted' = TRUE
  /\ inv' = [i \in InvIds |-> IdleInv]
  /\ sv' = [s \in SaveIds |-> IdleSave]
  /\ uploads' = <<>>
  /\ urlCalls' = <<>>
  /\ removes' = 0
  /\ upserts' = <<>>
  /\ alerts' = 0
  /\ UNCHANGED <<authUser, now, table, home, derivation>>

\* HomeScreen 107: navigation.navigate("EntryEdit")
OpenNew ==
  /\ HomeFocused
  /\ NothingInFlight
  /\ table.issued < EmptyTable.issued + MaxNotes
  /\ MountEditScreen(NoEntry)

\* HomeScreen 140-143: navigation.navigate("EntryEdit", { entry: item })
OpenEntry(k) ==
  /\ HomeFocused
  /\ NothingInFlight
  /\ k \in 1..Len(home.entries)
  /\ MountEditScreen([id |-> home.entries[k].id, title |-> home.entries[k].title,
                      content |-> home.entries[k].content,
                      media_url |-> home.entries[k].media_url])

\* HomeScreen 48-50 and 151: the delete button of item k opens the dialog
HandleDelete(k) ==
  /\ HomeFocused
  /\ home.del.pc \in {"idle", "done"}
  /\ k \in 1..Len(home.entries)
  /\ home' = [home EXCEPT !.del = [IdleDel EXCEPT !.pc = "confirm",
                                                  !.id = home.entries[k].id]]
  /\ UNCHANGED <<editingEntry, authUser, getUserPc, title, content, media, userId,
                 loading, mounted, inv, sv, now, uploads, urlCalls, removes,
                 upserts, alerts, table, derivation>>

\* HomeScreen 51: "Cancelar"
CancelDelete ==
  /\ home.del.pc = "confirm"
  /\ home' = [home EXCEPT !.del = IdleDel]
  /\ UNCHANGED <<editingEntry, authUser, getUserPc, title, content, media, userId,
                 loading, mounted, inv, sv, now, uploads, urlCalls, removes,
                 upserts, alerts, table, derivation>>

\* HomeScreen 52-57: "Excluir" issues the delete
ConfirmDelete ==
  /\ home.del.pc = "confirm"
  /\ home' = [home EXCEPT !.del.pc = "deleting", !.del.calls = @ + 1]
  /\ UNCHANGED <<editingEntry, authUser, getUserPc, title, content, media, userId,
                 loading, mounted, inv, sv, now, uploads, urlCalls, removes,
                 upserts, alerts, table, derivation>>

\* HomeScreen 57-59: the delete answered.  Its result is not read: whether
\* the store deleted the row or returned an error, loadEntries() is called
\* and no Alert is raised; a rejected promise leaves the handler at line 57.
DeleteResult(res) ==
  /\ home.del.pc = "deleting"
  /\ table' = IF res.kind = "ok" THEN ApplyDelete(table, home.del.id) ELSE table
  /\ home' = [home EXCEPT
               !.del.pc = "done",
               !.del.outcome = IF res.kind = "ok" THEN "deleted"
                               ELSE IF res.kind = "error" THEN "rejected"
                               ELSE "threw",
               !.loadPc = IF res.kind = "throw" THEN @ ELSE "loading"]
  /\ UNCHANGED <<editingEntry, authUser, getUserPc, title, content, media, userId,
                 loading, mounted, inv, sv, now, uploads, urlCalls, removes,
                 upserts, alerts, derivation>>

\* HomeScreen 66-79 then LoginScreen 40-48: the account signs out and account
\* u signs in; replace("Home") mounts a new list screen, whose focus effect
\* starts loadEntries
SwitchUser(u) ==
  /\ HomeFocused
  /\ NothingInFlight
  /\ home.del.pc # "deleting"
  /\ u # authUser
  /\ authUser' = u
  /\ home' = [entries |-> <<>>, loadPc |-> "loading", del |-> IdleDel]
  /\ UNCHANGED <<editingEntry, getUserPc, title, content, media, userId,
                 loading, mounted, inv, sv, now, uploads, urlCalls, removes,
                 upserts, alerts, table, derivation>>

HomeNext ==
  \/ LoadEntries
  \/ \E ok \in BOOLEAN : LoadEntriesResult(ok)
  \/ OpenNew
  \/ \E k \in 1..(1 + MaxNotes) : OpenEntry(k)
  \/ \E k \in 1..(1 + MaxNotes) : HandleDelete(k)
  \/ CancelDelete
  \/ ConfirmDelete
  \/ \E r \in CallResults : DeleteResult(r)
  \/ \E u \in HomeUsers : SwitchUser(u)
  \/ GetUser
  \/ \E t \in Titles : SetTitle(t)
  \/ GoBack
  \/ \E s \in SaveIds : SaveEntryStart(s)
  \/ \E s \in SaveIds, r \in CallResults : UpsertResult(s, r)

HomeSpec == HomeInit /\ [][HomeNext]_vars

\* ---------------------------------------------------------------- C11
Derived(k) == derivation.pc = "input" /\ derivation.out[k] # NoIdentity

\* C11: two storage keys derived at the same timestamp for different owner ids
\* are different strings, whatever the two assets are.
C11_OwnersNeverCollide ==
  (Derived(1) /\ Derived(2) /\ derivation.owner[1] # derivation.owner[2]) =>
    /\ derivation.out[1].fileName # derivation.out[2].fileName
    /\ derivation.out[1].path # derivation.out[2].path

\* both keys derived for the same asset, one owner id being the other's id
\* followed by "_" and the timestamp
C11_Witness ==
  /\ Derived(1) /\ Derived(2)
  /\ derivation.asset[1] = derivation.asset[2]
  /\ derivation.owner[1] = <<"u">>
  /\ derivation.owner[2] = <<"u","_">> \o Digits(derivation.t)

\* ---------------------------------------------------------------- C12
\* the file name has an extension: a dot followed by at least one character
\* after its last dot
HasExtension(fn) ==
  /\ fn # Null
  /\ fn # <<>>
  /\ \E j \in 1..Len(fn) : fn[j] = "."
  /\ fn[Len(fn)] # "."

\* j is the position of the last dot of fn
IsLastDot(fn, j) == fn[j] = "." /\ \A i \in (j + 1)..Len(fn) : fn[i] # "."

\* C12: when the picked asset's file name has an extension, the resolved
\* extension is the text after the file name's last dot, character for
\* character, and the storage key ends with "." followed by it, whether the
\* asset is a video, an image or of another kind.
C12_ExtensionPreserved ==
  \A k \in 1..2 :
    (Derived(k) /\ HasExtension(derivation.asset[k].fileName)) =>
      \A j \in 1..Len(derivation.asset[k].fileName) :
        IsLastDot(derivation.asset[k].fileName, j) =>
          LET fn == derivation.asset[k].fileName
              ext == SubSeq(fn, j + 1, Len(fn))
          IN /\ derivation.out[k].fileExt = ext
             /\ EndsWith(derivation.out[k].fileName, <<".">> \o ext)
             /\ EndsWith(derivation.out[k].path, <<".">> \o ext)
             /\ IsPrefix(<<"entries/">> \o derivation.owner[k] \o <<"_">>,
                         derivation.out[k].path)

\* a video named "v.M" and an image named "a.b.c" have had their keys derived
C12_Witness ==
  /\ Derived(1) /\ Derived(2)
  /\ derivation.asset[1].fileName = <<"v",".","M">>
  /\ derivation.asset[1].type = "video"
  /\ derivation.asset[2].fileName = <<"a",".","b",".","c">>
  /\ EndsWith(derivation.out[1].path, <<".","M">>)
  /\ EndsWith(derivation.out[2].path, <<".","c">>)

\* ---------------------------------------------------------------- C13
\* C13: for an asset without a file name the resolved extension is "mp4" when
\* its kind is video and "png" otherwise; the MIME type is the declared one
\* when the asset carries one, and otherwise "video/mp4" for a video and
\* "image/png" for any other kind.
C13_FallbackTable ==
  \A k \in 1..2 :
    LET asset == derivation.asset[k]
        out == derivation.out[k]
    IN (Derived(k) /\ asset.fileName = Null) =>
         /\ asset.type = "video" => out.fileExt = <<"m","p","4">>
         /\ asset.type # "video" => out.fileExt = <<"p","n","g">>
         /\ Truthy(asset.mimeType) => out.mimeType = asset.mimeType
         /\ (~Truthy(asset.mimeType) /\ asset.type = "video") =>
              out.mimeType = <<"video/mp4">>
         /\ (~Truthy(asset.mimeType) /\ asset.type # "video") =>
              out.mimeType = <<"image/png">>
         /\ EndsWith(out.path, <<".">> \o out.fileExt)

\* a video without file name or MIME type, and an image without file name
\* that declares its MIME type, have had their identities derived
C13_Witness ==
  /\ Derived(1) /\ Derived(2)
  /\ derivation.asset[1] = [fileName |-> Null, type |-> "video", mimeType |-> Null]
  /\ derivation.asset[2] = [fileName |-> Null, type |-> "image",
                            mimeType |-> <<"image/heic">>]
  /\ derivation.out[1].mimeType = <<"video/mp4">>
  /\ derivation.out[2].mimeType = <<"image/heic">>
  /\ derivation.out[2].fileExt = <<"p","n","g">>

\* ---------------------------------------------------------------- C14
IsErrorNotice(n) == \E m \in StoreErrors : n = ErrorNotice(m)

\* a step in which saveEntry s receives the store's rejection
UpsertRejectedStep(s) == sv[s].pc = "upserting" /\ sv'[s].outcome = "rejected"

\* a step in which handleDelete receives the store's rejection
DeleteRejectedStep == home.del.pc = "deleting" /\ home'.del.outcome = "rejected"

RejectionReported ==
  /\ \A s \in SaveIds :
       UpsertRejectedStep(s) =>
         /\ IsErrorNotice(sv'[s].notice)
         /\ alerts' = alerts + 1
         /\ upserts' = upserts
         /\ mounted' = mounted
  /\ DeleteRejectedStep =>
       /\ IsErrorNotice(home'.del.notice)
       /\ home'.del.calls = home.del.calls
       /\ table' = table

\* C14: whenever the record store rejects an upsert or a delete, the step
\* that receives the rejection surfaces a notice carrying the store's message
\* and issues no further call; a rejected upsert leaves the edit screen on
\* the stack.
C14_RejectionReported == [][RejectionReported]_vars

\* ---------------------------------------------------------------- C15
\* C15: every stored row's owner is the identity that inserted it.
C15_OwnerNeverChanges ==
  \A k \in 1..Len(table.rows) : table.rows[k].user_id = table.rows[k].creator

\* ---------------------------------------------------------------- C16
\* C16: while a pickMedia invocation is in flight and the screen is shown,
\* every step that changes the draft's media reference is that invocation's
\* own attach step.
C16_OnlyActiveInvocationWrites ==
  [][\A i \in InvIds :
       (InFlight(inv[i]) /\ mounted /\ mounted' /\ media' # media) =>
         Reaches(i, "AttachedToDraft")]_vars

\* ---------------------------------------------------------------- C17
\* invocations i and j uploaded to the same storage key
Collide(i, j) == i # j /\ inv[i].path # Null /\ inv[i].path = inv[j].path

SameKeyOverwrites ==
  \A i, j \in InvIds :
    Collide(i, j)' =>
      /\ inv'[i].uid = inv'[j].uid
      /\ IsPrefix(<<"entries/">> \o inv'[j].uid \o <<"_">>, inv'[j].path)
      /\ uploads'[inv'[j].call].upsert
      /\ inv'[j].notice # ErrorNotice(DuplicateError.message)
      /\ (inv[j].pc = "uploading" /\ Stored(inv[j].path)) =>
           [kind |-> "ok", message |-> ""] \in UploadOutcomes(j)
      /\ (Reaches(j, "AttachedToDraft") /\ Has(inv[i].trace, "AttachedToDraft")
            /\ mounted') =>
           /\ media' = PublicUrl(inv'[i].path)
           /\ Last(urlCalls') = inv'[i].path

CompletionResets ==
  /\ \A i \in InvIds :
       (inv[i].pc = "uploading" /\ inv'[i].pc = "done") => ~loading'
  /\ \A s \in SaveIds :
       (sv[s].pc = "upserting" /\ sv'[s].pc = "done") => ~loading'

\* C18: when the awaited calls settle, the busy flag always returns to false:
\* the completion step of every upload and of every upsert, whatever its
\* result, resets loading, and loading never stays true forever.
C18_BusyFlagResets ==
  /\ [][CompletionResets]_vars
  /\ loading ~> ~loading

\* an upload that threw and an upsert that was rejected have completed on a
\* screen still shown, and the busy flag is false
C18_Witness ==
  /\ mounted /\ ~loading
  /\ \E i \in InvIds : inv[i].pc = "done" /\ Last(inv[i].trace) = "Threw"
  /\ \E s \in SaveIds : sv[s].outcome = "rejected"

\* ---------------------------------------------------------------- C19
\* the step in which the picker answers invocation i, which holds no identity
PickedWithoutIdentity(i) ==
  inv[i].pc = "picking" /\ ~Truthy(inv[i].uid) /\ inv'[i] # inv[i]

SilentWithoutIdentity ==
  /\ \A i \in InvIds :
       PickedWithoutIdentity(i) =>
         /\ inv'[i].pc = "done"
         /\ Last(inv'[i].trace) \in {"NoIdentity", "Cancelled"}
         /\ inv'[i].notice = NoNotice
         /\ inv'[i].path = Null
         /\ uploads' = uploads
         /\ urlCalls' = urlCalls
         /\ alerts' = alerts
         /\ loading' = loading
         /\ media' = media
  /\ \A k \in 1..Len(uploads') :
       \E u \in Users : IsPrefix(<<"entries/">> \o u \o <<"_">>, uploads'[k].path)

\* C19: when the picker returns an asset to a pickMedia invocation that holds
\* no identity, the invocation ends there without an upload, a notice, a
\* change of the busy flag or of the draft's media; every key ever uploaded
\* starts with the id of a signed-in user.
C19_SilentWithoutIdentity == [][SilentWithoutIdentity]_vars

\* an asset was picked by an invocation holding no identity, on a screen still
\* shown, and nothing was uploaded or alerted
C19_Witness ==
  /\ mounted
  /\ \E i \in InvIds : inv[i].pc = "done" /\ Last(inv[i].trace) = "NoIdentity"
  /\ uploads = <<>>
  /\ alerts = 0
  /\ ~loading
====
